---- MODULE Spec2Model ----
(***************************************************************************)
(* Offline reconciliation core of the todo application: the local store    *)
(* (Dexie table), the outbox (offlineQueue), the useSync hook (push, pull, *)
(* fullSync, conflict resolution), the service worker's background sync    *)
(* and the server's POST /api/sync handler.                                *)
(*                                                                         *)
(* One browser page is modelled in full.  The page mounts three instances  *)
(* of the useSync hook (App, TodoPage, SyncStatus); every instance owns    *)
(* its own syncInProgressRef and its own conflicts state and registers its *)
(* own listeners.  Other clients appear as operations that reach the       *)
(* server's sync handler (RemoteOp).                                       *)
(*                                                                         *)
(* Granularity: an asynchronous function is cut at its transport await.    *)
(* The steps between two transport awaits (IndexedDB reads and writes)     *)
(* are one action.  Timestamps are not part of this model.                 *)
(***************************************************************************)
EXTENDS Integers, Sequences, FiniteSets, TLC

\* ------------------------------------------------------------------ bounds
MaxVersion == 3      \* no record version above this is explored
MaxQueue == 2        \* no outbox longer than this is explored
MaxSteps == 5        \* no run longer than this is explored
MaxBatch == 2        \* no request of another client longer than this is explored
MaxTime == 2        \* updatedAt values and server clock readings: 0..MaxTime

\* ------------------------------------------------------------- value sets
IdOrder == <<"t1", "t2">>          \* primary-key order of table.toArray()
Ids == {IdOrder[i] : i \in 1..Len(IdOrder)}
NewIds == {"t1"}                   \* the ids created in the explored runs
Texts == {"a", "b"}
NoText == ""                       \* a document without a text field
Hooks == {"App", "TodoPage", "SyncStatus"}
Fields == {"text", "completed", "version", "deleted"}
NoRec == [id |-> "none"]           \* no row / no document for an id

VARIABLES
    server,          \* MongoDB collection: id -> document or NoRec
    table,           \* Dexie table "todos": id -> row or NoRec
    usedIds,         \* ids crypto.randomUUID() has already handed out
    outbox,          \* IndexedDB store "ops", in insertion order
    online,          \* navigator.onLine
    syncInProgress,  \* hook -> syncInProgressRef.current
    pushOps,         \* hook -> operations of its push awaiting syncTodos
    fsWait,          \* hook -> fullSync awaiting its push: "none" | "plain" | "force"
    pendingFS,       \* fullSync calls scheduled by setTimeout: set of <<hook, force>>
    pulls,           \* fetchFromServer calls awaiting fetchTodos: set of [hook, force]
    conflicts,       \* hook -> conflicts state (sequence of ConflictInfo)
    showResolver,    \* showConflictResolver of the TodoPage instance (the only one rendered)
    rejected,        \* ids the server's last answer for them lists under conflicts, not resolved since
    swTag,           \* background sync tag 'sync-todos' is registered
    swOps,           \* performSync: batch read from the outbox, awaiting fetch
    retry,           \* the retryWithBackoff call of the transport that is under way
    steps,           \* number of steps taken so far
    last             \* the operation that produced this state

vars == <<server, table, usedIds, outbox, online, syncInProgress,
          pushOps, fsWait, pendingFS, pulls, conflicts, showResolver, rejected,
          swTag, swOps, retry, steps, last>>

\* --------------------------------------------------------------- helpers
Range(s) == {s[i] : i \in 1..Len(s)}

RECURSIVE SeqOfIds(_, _)
\* the ids of S in primary-key order, from position i on
SeqOfIds(S, i) ==
    IF i > Len(IdOrder) THEN <<>>
    ELSE (IF IdOrder[i] \in S THEN <<IdOrder[i]>> ELSE <<>>) \o SeqOfIds(S, i + 1)

Rows(t) == {i \in Ids : t[i] # NoRec}
Unsynced(t) == {i \in Ids : t[i] # NoRec /\ ~t[i].synced}

\* the content a server document and a local row share
Doc(r) == [id |-> r.id, text |-> r.text, completed |-> r.completed,
           version |-> r.version, deleted |-> r.deleted]
Row(d, s) == [id |-> d.id, text |-> d.text, completed |-> d.completed,
              version |-> d.version, deleted |-> d.deleted, synced |-> s]

\* ------------------------------------------------- server: POST /api/sync
\* A payload is the `todo` of an operation: the fields in `has` are present.
Payload(r) == [id |-> r.id, has |-> Fields, text |-> r.text,
               completed |-> r.completed, version |-> r.version,
               deleted |-> r.deleted]

\* new Todo(payload): the schema's defaults fill the absent fields
NewDoc(t) ==
    [id |-> t.id,
     text |-> IF "text" \in t.has THEN t.text ELSE NoText,
     completed |-> IF "completed" \in t.has THEN t.completed ELSE FALSE,
     version |-> IF "version" \in t.has THEN t.version ELSE 1,
     deleted |-> IF "deleted" \in t.has THEN t.deleted ELSE FALSE]

\* Todo.updateOne({id}, {$set: payload}): only the present fields change
SetDoc(d, t) ==
    [id |-> d.id,
     text |-> IF "text" \in t.has THEN t.text ELSE d.text,
     completed |-> IF "completed" \in t.has THEN t.completed ELSE d.completed,
     version |-> IF "version" \in t.has THEN t.version ELSE d.version,
     deleted |-> IF "deleted" \in t.has THEN t.deleted ELSE d.deleted]

\* One operation's outcome: the collection, the documents pushed to
\* `results` and the ids pushed to `conflicts`.
Outcome(srv, res, conf) == [srv |-> srv, res |-> res, conf |-> conf]

ServerCreate(srv, t) ==
    LET existing == srv[t.id] IN
    IF existing # NoRec
    THEN IF "version" \in t.has /\ existing.version >= t.version
         THEN Outcome(srv, <<existing>>, <<>>)
         ELSE Outcome(srv, <<>>, <<t.id>>)
    ELSE Outcome([srv EXCEPT ![t.id] = NewDoc(t)], <<NewDoc(t)>>, <<>>)

\* a faulty UPDATE branch without the version check
ServerUpdateUnchecked(srv, t) ==
    LET existing == srv[t.id]
        d == IF existing = NoRec THEN NewDoc(t) ELSE SetDoc(existing, t)
    IN Outcome([srv EXCEPT ![t.id] = d], <<NewDoc(t)>>, <<>>)

ServerUpdate(srv, t) ==
    LET existing == srv[t.id] IN
    IF existing # NoRec /\ "version" \in t.has /\ existing.version > t.version
    THEN Outcome(srv, <<>>, <<t.id>>)
    ELSE LET d == IF existing = NoRec THEN NewDoc(t) ELSE SetDoc(existing, t)
         IN Outcome([srv EXCEPT ![t.id] = d], <<NewDoc(t)>>, <<>>)

\* a faulty DELETE branch that marks the document without bumping its version
ServerDeletePlain(srv, t) ==
    LET existing == srv[t.id]
        d == IF existing # NoRec THEN [existing EXCEPT !.deleted = TRUE]
             ELSE [NewDoc(t) EXCEPT !.deleted = TRUE]
    IN Outcome([srv EXCEPT ![t.id] = d], <<d>>, <<>>)

ServerDelete(srv, t) ==
    LET existing == srv[t.id] IN
    IF existing # NoRec
    THEN LET d == [existing EXCEPT
                     !.deleted = TRUE,
                     !.version = IF "version" \in t.has /\ t.version > existing.version
                                 THEN t.version ELSE existing.version + 1]
         IN Outcome([srv EXCEPT ![t.id] = d], <<d>>, <<>>)
    ELSE LET d == [NewDoc(t) EXCEPT !.deleted = TRUE]
         IN Outcome([srv EXCEPT ![t.id] = d], <<d>>, <<>>)

ServerOp(srv, op) ==
    IF op.type = "CREATE" THEN ServerCreate(srv, op.todo)
    ELSE IF op.type = "UPDATE" THEN ServerUpdate(srv, op.todo)
    ELSE ServerDelete(srv, op.todo)

RECURSIVE ServerSync(_, _)
\* the handler's loop over req.body.operations
ServerSync(srv, ops) ==
    IF ops = <<>> THEN Outcome(srv, <<>>, <<>>)
    ELSE LET first == ServerOp(srv, Head(ops))
             rest == ServerSync(first.srv, Tail(ops))
         IN Outcome(rest.srv, first.res \o rest.res, first.conf \o rest.conf)

\* ------------------------------------------- conflictResolver.ts (client)
ConflictInfo(l, s, type) ==
    [todoId |-> l.id, localVersion |-> l, serverVersion |-> s, conflictType |-> type]

\* a faulty loop body that does not look at the row's synced flag
DetectOneAnySynced(l, srv) ==
    LET s == srv[l.id] IN
    IF s = NoRec THEN <<>>
    ELSE IF l.version # s.version
    THEN IF l.deleted /\ ~s.deleted THEN <<ConflictInfo(l, s, "deletion")>>
         ELSE IF l.text # s.text \/ l.completed # s.completed
         THEN <<ConflictInfo(l, s, "content")>>
         ELSE IF l.version < s.version THEN <<ConflictInfo(l, s, "version")>>
         ELSE <<>>
    ELSE <<>>

\* a faulty loop body that compares the content before the deleted flags
DetectOneContentFirst(l, srv) ==
    LET s == srv[l.id] IN
    IF s = NoRec THEN <<>>
    ELSE IF l.version # s.version /\ ~l.synced
    THEN IF l.text # s.text \/ l.completed # s.completed
         THEN <<ConflictInfo(l, s, "content")>>
         ELSE IF l.deleted /\ ~s.deleted THEN <<ConflictInfo(l, s, "deletion")>>
         ELSE IF l.version < s.version THEN <<ConflictInfo(l, s, "version")>>
         ELSE <<>>
    ELSE <<>>

\* a faulty loop body without the content branch
DetectOneNoContent(l, srv) ==
    LET s == srv[l.id] IN
    IF s = NoRec THEN <<>>
    ELSE IF l.version # s.version /\ ~l.synced
    THEN IF l.deleted /\ ~s.deleted THEN <<ConflictInfo(l, s, "deletion")>>
         ELSE IF l.version < s.version THEN <<ConflictInfo(l, s, "version")>>
         ELSE <<>>
    ELSE <<>>

\* a faulty loop body that reports a version conflict in either direction
DetectOneEitherDirection(l, srv) ==
    LET s == srv[l.id] IN
    IF s = NoRec THEN <<>>
    ELSE IF l.version # s.version /\ ~l.synced
    THEN IF l.deleted /\ ~s.deleted THEN <<ConflictInfo(l, s, "deletion")>>
         ELSE IF l.text # s.text \/ l.completed # s.completed
         THEN <<ConflictInfo(l, s, "content")>>
         ELSE <<ConflictInfo(l, s, "version")>>
    ELSE <<>>

\* the body of detectConflicts' loop for one local row and the server list
DetectOne(l, srv) ==
    LET s == srv[l.id] IN
    IF s = NoRec THEN <<>>
    ELSE IF l.version # s.version /\ ~l.synced
    THEN IF l.deleted /\ ~s.deleted THEN <<ConflictInfo(l, s, "deletion")>>
         ELSE IF l.text # s.text \/ l.completed # s.completed
         THEN <<ConflictInfo(l, s, "content")>>
         ELSE IF l.version < s.version THEN <<ConflictInfo(l, s, "version")>>
         ELSE <<>>
    ELSE <<>>

RECURSIVE DetectFrom(_, _, _)
DetectFrom(tbl, srv, i) ==
    IF i > Len(IdOrder) THEN <<>>
    ELSE (IF tbl[IdOrder[i]] = NoRec THEN <<>> ELSE DetectOne(tbl[IdOrder[i]], srv))
         \o DetectFrom(tbl, srv, i + 1)

detectConflicts(localTodos, serverTodos) == DetectFrom(localTodos, serverTodos, 1)

\* a faulty resolveConflict whose 'client-wins' keeps the local version number
resolveConflictKeepingVersion(c, strategy) ==
    IF strategy = "server-wins" THEN Row(c.serverVersion, TRUE)
    ELSE IF strategy = "client-wins"
    THEN [c.localVersion EXCEPT !.synced = FALSE]
    ELSE c.serverVersion

\* resolveConflict for the strategies handleConflictResolution uses
resolveConflict(c, strategy) ==
    IF strategy = "server-wins" THEN Row(c.serverVersion, TRUE)
    ELSE IF strategy = "client-wins"
    THEN [c.localVersion EXCEPT !.version = c.serverVersion.version + 1, !.synced = FALSE]
    ELSE c.serverVersion

\* ConflictResolver.handleResolution, case 'merge'
MergeText(a, b) == a \o " | " \o b
Max(a, b) == IF a >= b THEN a ELSE b
\* a faulty merge that takes the higher version as it is
MergedTodoUnbumped(c) ==
    [Row(c.serverVersion, FALSE) EXCEPT
       !.text = MergeText(c.localVersion.text, c.serverVersion.text),
       !.version = Max(c.localVersion.version, c.serverVersion.version)]

\* a faulty merge that puts the server's text first
MergedTodoServerFirst(c) ==
    [Row(c.serverVersion, FALSE) EXCEPT
       !.text = MergeText(c.serverVersion.text, c.localVersion.text),
       !.version = Max(c.localVersion.version, c.serverVersion.version) + 1]

MergedTodo(c) ==
    [Row(c.serverVersion, FALSE) EXCEPT
       !.text = MergeText(c.localVersion.text, c.serverVersion.text),
       !.version = Max(c.localVersion.version, c.serverVersion.version) + 1]

\* -------------------------------------------------- useSync: hook calls
\* The part of the state the hook's functions change when they are called:
\* st = [syncInProgress, pushOps, fsWait, pulls].
HookState == [syncInProgress |-> syncInProgress, pushOps |-> pushOps,
              fsWait |-> fsWait, pulls |-> pulls]

\* SyncStatus is rendered only while the list is not empty (TodoPage footer)
Mounted(h, tbl) == h # "SyncStatus" \/ Rows(tbl) # {}

\* syncToServer: the operations built from the unsynced rows
OpType(r) == IF r.deleted THEN "DELETE" ELSE IF r.version = 1 THEN "CREATE" ELSE "UPDATE"
RECURSIVE OpsOf(_, _)
OpsOf(tbl, ids) ==
    IF ids = <<>> THEN <<>>
    ELSE <<[type |-> OpType(tbl[Head(ids)]), todo |-> Payload(tbl[Head(ids)])]>>
         \o OpsOf(tbl, Tail(ids))
Operations(tbl) == OpsOf(tbl, SeqOfIds(Unsynced(tbl), 1))

\* syncToServer up to its await of syncTodos
SyncCall(st, h, tbl, onl) ==
    IF ~onl \/ st.syncInProgress[h] THEN st
    ELSE IF Unsynced(tbl) = {} THEN st
    ELSE [st EXCEPT !.syncInProgress[h] = TRUE, !.pushOps[h] = Operations(tbl)]

\* fetchFromServer up to its await of fetchTodos
FetchCall(st, h, force, onl) ==
    IF ~onl THEN st
    ELSE [st EXCEPT !.pulls = @ \cup {[hook |-> h, force |-> force]}]

\* a faulty fullSync that does not await its push: the fetch is issued at once
FullSyncCallNoAwait(st, h, force, tbl, onl) ==
    IF ~onl \/ st.syncInProgress[h] THEN st
    ELSE FetchCall([SyncCall(st, h, tbl, onl) EXCEPT
                      !.fsWait[h] = IF Unsynced(tbl) = {} THEN "none"
                                    ELSE IF force THEN "force" ELSE "plain"],
                   h, force, onl)

\* fullSync up to the first transport await of its push or its pull
FullSyncCall(st, h, force, tbl, onl) ==
    IF ~onl \/ st.syncInProgress[h] THEN st
    ELSE IF Unsynced(tbl) = {} THEN FetchCall(st, h, force, onl)
    ELSE [SyncCall(st, h, tbl, onl) EXCEPT !.fsWait[h] = IF force THEN "force" ELSE "plain"]

\* a faulty end of syncToServer that leaves syncInProgressRef set
PushEndKeepingFlag(st, h, onl) ==
    LET done == [st EXCEPT !.pushOps[h] = <<>>, !.fsWait[h] = "none"]
    IN IF st.fsWait[h] = "none" THEN done
       ELSE FetchCall(done, h, st.fsWait[h] = "force", onl)

\* syncToServer from the end of its await on: the finally block, then the
\* rest of a fullSync that awaited this push
PushEnd(st, h, onl) ==
    LET done == [st EXCEPT !.syncInProgress[h] = FALSE, !.pushOps[h] = <<>>,
                           !.fsWait[h] = "none"]
    IN IF st.fsWait[h] = "none" THEN done
       ELSE FetchCall(done, h, st.fsWait[h] = "force", onl)

HookOrder == <<"App", "TodoPage", "SyncStatus">>
RECURSIVE ForceSyncFrom(_, _, _, _)
\* window 'force-sync': handleForceSync of every mounted instance
ForceSyncFrom(st, i, tbl, onl) ==
    IF i > Len(HookOrder) THEN st
    ELSE ForceSyncFrom(IF Mounted(HookOrder[i], tbl)
                       THEN FullSyncCall(st, HookOrder[i], FALSE, tbl, onl) ELSE st,
                       i + 1, tbl, onl)

RECURSIVE FetchAllFrom(_, _, _, _, _)
\* an event every mounted instance but `except` answers with fetchFromServer(false)
FetchAllFrom(st, i, except, tbl, onl) ==
    IF i > Len(HookOrder) THEN st
    ELSE FetchAllFrom(IF Mounted(HookOrder[i], tbl) /\ HookOrder[i] # except
                      THEN FetchCall(st, HookOrder[i], FALSE, onl) ELSE st,
                      i + 1, except, tbl, onl)

SetHookState(st) ==
    /\ syncInProgress' = st.syncInProgress
    /\ pushOps' = st.pushOps
    /\ fsWait' = st.fsWait
    /\ pulls' = st.pulls

\* ------------------------------------------ the transport: retryWithBackoff
\* fetchTodos and syncTodos both pass maxRetries 3 and leave maxDelay and
\* backoffMultiplier at their defaults
maxRetries == 3
maxDelay == 30000
backoffMultiplier == 2
Transport == {"fetchTodos", "syncTodos"}
initialDelay(fn) == IF fn = "fetchTodos" THEN 1000 ELSE 2000

RECURSIVE Pow(_, _)
Pow(b, e) == IF e = 0 THEN 1 ELSE b * Pow(b, e - 1)
Min(a, b) == IF a <= b THEN a ELSE b

\* Math.min(initialDelay * Math.pow(backoffMultiplier, attempt), maxDelay)
BackoffDelay(fn, attempt) ==
    Min(initialDelay(fn) * Pow(backoffMultiplier, attempt), maxDelay)

\* delay * (0.8 + Math.random() * 0.4): three values of the random factor
Jitters(delay) == {(delay * k) \div 10 : k \in {8, 10, 11}}

\* no call under way
RetryIdle ==
    [fn |-> "none", status |-> "idle", attempt |-> 0, calls |-> 0, slept |-> <<>>,
     result |-> <<"none", 0>>]

\* a faulty test that gives up one attempt early
LastAttemptEarly(attempt) == attempt = maxRetries - 1

\* attempt === maxRetries
LastAttempt(attempt) == attempt = maxRetries

\* ------------------------------------------------------------- the state
Bounded ==
    /\ \A i \in Ids : table[i] # NoRec => table[i].version <= MaxVersion
    /\ \A i \in Ids : server[i] # NoRec => server[i].version <= MaxVersion
    /\ Len(outbox) <= MaxQueue

\* A session starts with an empty store or with the store and the server
\* holding the same record (a record created and synced earlier).
Stored(i) == [id |-> i, text |-> "a", completed |-> FALSE, version |-> 1, deleted |-> FALSE]

Init ==
    /\ \E S \in SUBSET NewIds :
          /\ server = [i \in Ids |-> IF i \in S THEN Stored(i) ELSE NoRec]
          /\ table = [i \in Ids |-> IF i \in S THEN Row(Stored(i), TRUE) ELSE NoRec]
          /\ usedIds = S
    /\ outbox = <<>>
    /\ online = TRUE
    /\ syncInProgress = [h \in Hooks |-> FALSE]
    /\ pushOps = [h \in Hooks |-> <<>>]
    /\ fsWait = [h \in Hooks |-> "none"]
    /\ pendingFS = {<<"App", TRUE>>}      \* App's initial sync on mount
    /\ pulls = {}
    /\ conflicts = [h \in Hooks |-> <<>>]
    /\ showResolver = FALSE
    /\ rejected = {}
    /\ swTag = FALSE
    /\ swOps = <<>>
    /\ retry = RetryIdle
    /\ steps = 0
    /\ last = "Init"

\* every action counts as one step, leaves its name and stays within the bounds
Step(name) ==
    /\ steps < MaxSteps
    /\ steps' = steps + 1
    /\ last' = name
    /\ Bounded'
    /\ UNCHANGED retry

\* ------------------------------------------------ TodoPage: the mutations
\* offlineQueue.addOperation: a new entry under a key no stored entry has
FreshKey == CHOOSE k \in 1..(2 * MaxQueue + 2) :
                \A e \in Range(outbox) \cup Range(swOps) : e.key # k
addOperation(q, op) == Append(q, [key |-> FreshKey, op |-> op])

\* what every mutation does after its write to the table: queue the
\* operation, register the background sync and, online, dispatch 'force-sync'
AfterMutation(op, name) ==
    /\ outbox' = addOperation(outbox, op)
    /\ swTag' = TRUE
    /\ SetHookState(ForceSyncFrom(HookState, 1, table', online))
    /\ UNCHANGED <<server, online, pendingFS, conflicts, showResolver, rejected, swOps>>
    /\ Step(name)

addTodo(id, text) ==
    LET todoData == [id |-> id, text |-> text, completed |-> FALSE, version |-> 1,
                     deleted |-> FALSE, synced |-> FALSE]
    IN /\ id \notin usedIds
       /\ usedIds' = usedIds \cup {id}
       /\ table' = [table EXCEPT ![id] = todoData]
       /\ AfterMutation([type |-> "CREATE", todo |-> Payload(todoData)], "addTodo")

toggleTodo(id) ==
    /\ table[id] # NoRec /\ ~table[id].deleted
    /\ table' = [table EXCEPT ![id] = [@ EXCEPT !.completed = ~@,
                                                !.version = @ + 1,
                                                !.synced = FALSE]]
    /\ AfterMutation([type |-> "UPDATE",
                      todo |-> [Payload(table'[id]) EXCEPT !.has = {"completed", "version"}]],
                     "toggleTodo")
    /\ UNCHANGED usedIds

deleteTodo(id) ==
    /\ table[id] # NoRec /\ ~table[id].deleted
    /\ table' = [table EXCEPT ![id] = [@ EXCEPT !.deleted = TRUE,
                                                !.synced = FALSE,
                                                !.version = @ + 1]]
    /\ AfterMutation([type |-> "DELETE",
                      todo |-> [Payload(table'[id]) EXCEPT !.has = {"deleted"}]],
                     "deleteTodo")
    /\ UNCHANGED usedIds

editTodo(id, newText) ==
    /\ table[id] # NoRec /\ ~table[id].deleted
    /\ table' = [table EXCEPT ![id] = [@ EXCEPT !.text = newText,
                                                !.version = @ + 1,
                                                !.synced = FALSE]]
    /\ AfterMutation([type |-> "UPDATE",
                      todo |-> [Payload(table'[id]) EXCEPT !.has = {"text"}]],
                     "editTodo")
    /\ UNCHANGED usedIds

\* ------------------------------------------------------ useSync: the push
RECURSIVE ApplyResultsUnsynced(_, _)
\* a faulty loop that puts the results without marking them synced
ApplyResultsUnsynced(tbl, res) ==
    IF res = <<>> THEN tbl
    ELSE LET r == Head(res) IN
         ApplyResultsUnsynced([tbl EXCEPT ![r.id] = IF r.deleted THEN NoRec
                                                    ELSE Row(r, FALSE)],
                              Tail(res))

RECURSIVE ApplyResults(_, _)
\* the loop over serverResults: a tombstone deletes the row, any other
\* result replaces the row and is marked synced
ApplyResults(tbl, res) ==
    IF res = <<>> THEN tbl
    ELSE LET r == Head(res) IN
         ApplyResults([tbl EXCEPT ![r.id] = IF r.deleted THEN NoRec ELSE Row(r, TRUE)],
                      Tail(res))

\* a faulty push that clears the queue without applying the server's results
PushDoneUnapplied(h) ==
    /\ pushOps[h] # <<>>
    /\ LET out == ServerSync(server, pushOps[h]) IN
       /\ server' = out.srv
       /\ table' = table
       /\ rejected' = (rejected \ {pushOps[h][i].todo.id : i \in 1..Len(pushOps[h])})
                        \cup Range(out.conf)
    /\ outbox' = <<>>
    /\ SetHookState(FetchAllFrom(PushEnd(HookState, h, online), 1, h, table', online))
    /\ UNCHANGED <<usedIds, online, pendingFS, conflicts, showResolver, swTag, swOps>>
    /\ Step("PushDone")

\* syncTodos answered: results applied, queue cleared, 'synced' broadcast
\* to the other instances' channels, finally block
PushDone(h) ==
    /\ pushOps[h] # <<>>
    /\ LET out == ServerSync(server, pushOps[h]) IN
       /\ server' = out.srv
       /\ table' = ApplyResults(table, out.res)
       /\ rejected' = (rejected \ {pushOps[h][i].todo.id : i \in 1..Len(pushOps[h])})
                        \cup Range(out.conf)
    /\ outbox' = <<>>
    /\ SetHookState(FetchAllFrom(PushEnd(HookState, h, online), 1, h, table', online))
    /\ UNCHANGED <<usedIds, online, pendingFS, conflicts, showResolver, swTag, swOps>>
    /\ Step("PushDone")

\* a faulty catch block that clears the queue although nothing was sent
PushFailClearing(h) ==
    /\ pushOps[h] # <<>>
    /\ swTag' = TRUE
    /\ outbox' = <<>>
    /\ SetHookState(PushEnd(HookState, h, online))
    /\ UNCHANGED <<server, table, usedIds, online, pendingFS, conflicts,
                   showResolver, rejected, swOps>>
    /\ Step("PushFail")

\* syncTodos threw after its retries (no attempt reached the handler): the
\* catch block registers the background sync, then the finally block
PushFail(h) ==
    /\ pushOps[h] # <<>>
    /\ swTag' = TRUE
    /\ SetHookState(PushEnd(HookState, h, online))
    /\ UNCHANGED <<server, table, usedIds, outbox, online, pendingFS, conflicts,
                   showResolver, rejected, swOps>>
    /\ Step("PushFail")

\* ------------------------------------------------------ useSync: the pull
\* the force branch: table.clear(), then every server todo put as synced
ForceReplace(srv) == [i \in Ids |-> IF srv[i] = NoRec THEN NoRec ELSE Row(srv[i], TRUE)]

\* a faulty merge branch that puts every server todo, whatever the local row
SmartMergeOverwriting(tbl, srv) ==
    [i \in Ids |-> IF srv[i] = NoRec THEN tbl[i] ELSE Row(srv[i], TRUE)]

\* the merge branch: a server todo replaces a missing or a synced row
SmartMerge(tbl, srv) ==
    [i \in Ids |-> IF srv[i] = NoRec THEN tbl[i]
                   ELSE IF tbl[i] = NoRec \/ tbl[i].synced THEN Row(srv[i], TRUE)
                   ELSE tbl[i]]

\* a faulty pull that never runs the detector
PullDoneIgnoring(p) ==
    /\ p \in pulls
    /\ pulls' = pulls \ {p}
    /\ table' = IF p.force THEN ForceReplace(server) ELSE SmartMerge(table, server)
    /\ UNCHANGED <<server, usedIds, outbox, online, syncInProgress, pushOps, fsWait,
                   pendingFS, conflicts, showResolver, rejected, swTag, swOps>>
    /\ Step("PullDone")

\* a faulty pull that records the conflicts and still merges the other rows
PullDonePerRecord(p) ==
    /\ p \in pulls
    /\ pulls' = pulls \ {p}
    /\ LET detected == IF ~p.force /\ Unsynced(table) # {}
                       THEN detectConflicts(table, server) ELSE <<>>
       IN /\ IF detected # <<>>
             THEN /\ conflicts' = [conflicts EXCEPT ![p.hook] = detected]
                  /\ showResolver' = (showResolver \/ p.hook = "TodoPage")
             ELSE UNCHANGED <<conflicts, showResolver>>
          /\ table' = IF p.force THEN ForceReplace(server)
                      ELSE SmartMerge(table, server)
    /\ UNCHANGED <<server, usedIds, outbox, online, syncInProgress, pushOps, fsWait,
                   pendingFS, rejected, swTag, swOps>>
    /\ Step("PullDone")

\* fetchTodos answered
PullDone(p) ==
    /\ p \in pulls
    /\ pulls' = pulls \ {p}
    /\ LET detected == IF ~p.force /\ Unsynced(table) # {}
                       THEN detectConflicts(table, server) ELSE <<>>
       IN IF detected # <<>>
          THEN /\ conflicts' = [conflicts EXCEPT ![p.hook] = detected]
               /\ showResolver' = (showResolver \/ p.hook = "TodoPage")
               /\ UNCHANGED table
          ELSE /\ table' = IF p.force THEN ForceReplace(server)
                           ELSE SmartMerge(table, server)
               /\ UNCHANGED <<conflicts, showResolver>>
    /\ UNCHANGED <<server, usedIds, outbox, online, syncInProgress, pushOps, fsWait,
                   pendingFS, rejected, swTag, swOps>>
    /\ Step("PullDone")

\* a faulty forced pull that clears the table before it fetches
PullFailClearing(p) ==
    /\ p \in pulls
    /\ pulls' = pulls \ {p}
    /\ table' = IF p.force THEN [i \in Ids |-> NoRec] ELSE table
    /\ UNCHANGED <<server, usedIds, outbox, online, syncInProgress, pushOps,
                   fsWait, pendingFS, conflicts, showResolver, rejected, swTag, swOps>>
    /\ Step("PullFail")

\* fetchTodos threw after its retries
PullFail(p) ==
    /\ p \in pulls
    /\ pulls' = pulls \ {p}
    /\ UNCHANGED <<server, table, usedIds, outbox, online, syncInProgress, pushOps,
                   fsWait, pendingFS, conflicts, showResolver, rejected, swTag, swOps>>
    /\ Step("PullFail")

\* --------------------------------------------------- useSync: the triggers
\* the 30 s interval of one instance: syncToServer when unsynced rows exist
AutoSync(h) ==
    /\ Mounted(h, table) /\ online /\ ~syncInProgress[h]
    /\ Unsynced(table) # {}
    /\ SetHookState(SyncCall(HookState, h, table, online))
    /\ UNCHANGED <<server, table, usedIds, outbox, online, pendingFS, conflicts,
                   showResolver, rejected, swTag, swOps>>
    /\ Step("AutoSync")

\* window 'focus' / document 'visibilitychange': every instance's listener
\* (and App's own) calls fetchFromServer(false)
Focus ==
    /\ online
    /\ SetHookState(FetchAllFrom(HookState, 1, "nobody", table, online))
    /\ UNCHANGED <<server, table, usedIds, outbox, online, pendingFS, conflicts,
                   showResolver, rejected, swTag, swOps>>
    /\ Step("Focus")

\* window 'offline'
GoOffline ==
    /\ online
    /\ online' = FALSE
    /\ UNCHANGED <<server, table, usedIds, outbox, syncInProgress, pushOps, fsWait,
                   pendingFS, pulls, conflicts, showResolver, rejected, swTag, swOps>>
    /\ Step("GoOffline")

\* window 'online': App's handler schedules fullSync(false); every
\* instance's handleOnline schedules it when checkHealth answers OK
GoOnline(healthy) ==
    /\ ~online
    /\ online' = TRUE
    /\ pendingFS' = pendingFS \cup {<<"App", FALSE>>}
                     \cup {<<h, FALSE>> : h \in {x \in Hooks : healthy /\ Mounted(x, table)}}
    /\ UNCHANGED <<server, table, usedIds, outbox, syncInProgress, pushOps, fsWait,
                   pulls, conflicts, showResolver, rejected, swTag, swOps>>
    /\ Step("GoOnline")

\* a setTimeout(() => fullSync(force)) fires
ScheduledFullSync(h, force) ==
    /\ <<h, force>> \in pendingFS
    /\ pendingFS' = pendingFS \ {<<h, force>>}
    /\ SetHookState(FullSyncCall(HookState, h, force, table, online))
    /\ UNCHANGED <<server, table, usedIds, outbox, online, conflicts, showResolver,
                   rejected, swTag, swOps>>
    /\ Step("ScheduledFullSync")

\* App's 5 s monitor: registers the background sync when it sees unsynced
\* rows (its lastUnsyncedCount is not modelled: it registers at least once
\* per change of the count)
Monitor ==
    /\ Unsynced(table) # {} /\ ~swTag
    /\ swTag' = TRUE
    /\ UNCHANGED <<server, table, usedIds, outbox, online, syncInProgress, pushOps,
                   fsWait, pendingFS, pulls, conflicts, showResolver, rejected, swOps>>
    /\ Step("Monitor")

\* ------------------------------------------- useSync: conflict resolution
Choices == {"local", "server", "merge"}

\* handleConflictResolution's resolvedTodo for one dialog choice
ResolvedTodo(c, choice) ==
    IF choice = "local" THEN resolveConflict(c, "client-wins")
    ELSE IF choice = "server" THEN resolveConflict(c, "server-wins")
    ELSE MergedTodo(c)

ConflictOf(cs, id) == cs[CHOOSE k \in 1..Len(cs) : cs[k].todoId = id]

\* The dialog's "resolve all": handleConflictResolution for every conflict
\* the user has picked a choice for (all calls see the same `conflicts`),
\* then onDismiss.  todoCollection.update of a missing row throws and leaves
\* that conflict in the list.
ResolveAll(picked) ==
    LET cs == conflicts["TodoPage"]
        applied == {i \in DOMAIN picked : table[i] # NoRec}
    IN /\ showResolver
       /\ DOMAIN picked # {}
       /\ DOMAIN picked \subseteq {cs[k].todoId : k \in 1..Len(cs)}
       /\ table' = [i \in Ids |-> IF i \in applied
                                  THEN ResolvedTodo(ConflictOf(cs, i), picked[i])
                                  ELSE table[i]]
       /\ conflicts' = [conflicts EXCEPT !["TodoPage"] =
                          IF Len(cs) <= 1 /\ applied # {} THEN <<>>
                          ELSE SelectSeq(cs, LAMBDA c : c.todoId \notin applied)]
       /\ pendingFS' = IF Len(cs) <= 1 /\ applied # {}
                       THEN pendingFS \cup {<<"TodoPage", FALSE>>} ELSE pendingFS
       /\ showResolver' = FALSE
       /\ rejected' = rejected \ applied
       /\ UNCHANGED <<server, usedIds, outbox, online, syncInProgress, pushOps, fsWait,
                      pulls, swTag, swOps>>
    /\ Step("ResolveAll")

\* --------------------------------------------- service worker: performSync
RECURSIVE OpsOfEntries(_)
OpsOfEntries(q) == IF q = <<>> THEN <<>> ELSE <<Head(q).op>> \o OpsOfEntries(Tail(q))

\* BACKGROUND_SYNC_COMPLETE with success: App's listener calls fetchFromServer(true)
NotifySuccess(st) == FetchCall(st, "App", TRUE, online)

\* the worker's getAllOperations: store.getAll() lists the entries by their
\* primary key, a random UUID drawn when the entry was added, so the order
\* of the batch is any order of the stored entries (`key` only tells the
\* entries apart)
KeyOrders(q) ==
    {[k \in 1..Len(q) |-> q[f[k]]] : f \in Permutations(1..Len(q))}

\* the 'sync' event fires: the batch is read; an empty batch is reported
\* as a successful sync
SwSyncStart ==
    /\ swTag /\ online /\ swOps = <<>>
    /\ swTag' = FALSE
    /\ swOps' \in KeyOrders(outbox)
    /\ SetHookState(IF outbox = <<>> THEN NotifySuccess(HookState) ELSE HookState)
    /\ UNCHANGED <<server, table, usedIds, outbox, online, pendingFS, conflicts,
                   showResolver, rejected>>
    /\ Step("SwSyncStart")

\* a POST attempt answered with a success status: queue cleared, clients notified
SwSyncDone ==
    /\ swOps # <<>>
    /\ LET out == ServerSync(server, OpsOfEntries(swOps)) IN
       /\ server' = out.srv
       /\ rejected' = (rejected \ {swOps[i].op.todo.id : i \in 1..Len(swOps)})
                        \cup Range(out.conf)
    /\ outbox' = <<>>
    /\ swOps' = <<>>
    /\ SetHookState(NotifySuccess(HookState))
    /\ UNCHANGED <<table, usedIds, online, pendingFS, conflicts, showResolver, swTag>>
    /\ Step("SwSyncDone")

\* a faulty performSync that clears the queue although every attempt failed
SwSyncFailClearing ==
    /\ swOps # <<>>
    /\ swOps' = <<>>
    /\ swTag' = TRUE
    /\ outbox' = <<>>
    /\ UNCHANGED <<server, table, usedIds, online, syncInProgress, pushOps, fsWait,
                   pendingFS, pulls, conflicts, showResolver, rejected>>
    /\ Step("SwSyncFail")

\* all three attempts failed: performSync rejects and the browser keeps the tag
SwSyncFail ==
    /\ swOps # <<>>
    /\ swOps' = <<>>
    /\ swTag' = TRUE
    /\ UNCHANGED <<server, table, usedIds, outbox, online, syncInProgress, pushOps, fsWait,
                   pendingFS, pulls, conflicts, showResolver, rejected>>
    /\ Step("SwSyncFail")

\* --------------------------------------------------------- other clients
\* an operation of another client's push reaches the sync handler
\* (the other client's record differs from Stored in its text)
RemoteOps ==
    {[type |-> ty, todo |-> [id |-> i, has |-> Fields, text |-> "b", completed |-> FALSE,
                             version |-> v, deleted |-> (ty = "DELETE")]] :
        ty \in {"CREATE", "UPDATE", "DELETE"}, i \in Ids, v \in 1..MaxVersion}

RemoteOp(op) ==
    /\ op \in RemoteOps
    /\ IF op.type = "CREATE"
       THEN op.todo.id \in NewIds \ usedIds /\ op.todo.version = 1
       ELSE server[op.todo.id] # NoRec /\ op.todo.version > 1
    /\ server' = ServerOp(server, op).srv
    /\ server' # server
    /\ usedIds' = usedIds \cup {op.todo.id}
    /\ UNCHANGED <<table, outbox, online, syncInProgress, pushOps, fsWait, pendingFS,
                   pulls, conflicts, showResolver, rejected, swTag, swOps>>
    /\ Step("RemoteOp")

\* ------------------------------------------------------ the specification
Next ==
    \/ \E i \in NewIds, tx \in Texts : addTodo(i, tx)
    \/ \E i \in Ids : toggleTodo(i)
    \/ \E i \in Ids : deleteTodo(i)
    \/ \E i \in Ids, tx \in Texts : editTodo(i, tx)
    \/ \E h \in Hooks : PushDone(h)
    \/ \E h \in Hooks : PushFail(h)
    \/ \E p \in pulls : PullDone(p)
    \/ \E p \in pulls : PullFail(p)
    \/ \E h \in Hooks : AutoSync(h)
    \/ Focus
    \/ GoOffline
    \/ \E healthy \in BOOLEAN : GoOnline(healthy)
    \/ \E h \in Hooks, force \in BOOLEAN : ScheduledFullSync(h, force)
    \/ Monitor
    \/ \E S \in SUBSET Ids : \E picked \in [S -> Choices] : ResolveAll(picked)
    \/ SwSyncStart
    \/ SwSyncDone
    \/ SwSyncFail
    \/ \E op \in RemoteOps : RemoteOp(op)

Spec == Init /\ [][Next]_vars

\* ------------------------------------- the sync handler taken on its own
\* Any collection the handler can find, any batch any client can send.
ServerDocs(i) ==
    {[id |-> i, text |-> tx, completed |-> FALSE, version |-> v, deleted |-> d] :
        tx \in Texts, v \in 1..MaxVersion, d \in BOOLEAN}

\* req.body.operations[k]: with a version, or (as the queue entries of
\* editTodo and deleteTodo) without one
BatchOps ==
    {[type |-> ty, todo |-> [id |-> i, has |-> Fields, text |-> tx, completed |-> TRUE,
                             version |-> v, deleted |-> (ty = "DELETE")]] :
        ty \in {"CREATE", "UPDATE", "DELETE"}, i \in NewIds, tx \in Texts,
        v \in 1..MaxVersion}
    \cup
    {[type |-> ty, todo |-> [id |-> i, has |-> Fields \ {"version"}, text |-> tx,
                             completed |-> TRUE, version |-> 1,
                             deleted |-> (ty = "DELETE")]] :
        ty \in {"CREATE", "UPDATE", "DELETE"}, i \in NewIds, tx \in Texts}

Batches == UNION {[1..n -> BatchOps] : n \in 1..MaxBatch}

\* every variable of the page at rest
PageAtRest ==
    /\ usedIds = Ids
    /\ outbox = <<>>
    /\ online = TRUE
    /\ syncInProgress = [h \in Hooks |-> FALSE]
    /\ pushOps = [h \in Hooks |-> <<>>]
    /\ fsWait = [h \in Hooks |-> "none"]
    /\ pendingFS = {}
    /\ conflicts = [h \in Hooks |-> <<>>]
    /\ showResolver = FALSE
    /\ rejected = {}
    /\ swTag = FALSE
    /\ swOps = <<>>
    /\ retry = RetryIdle
    /\ steps = 0
    /\ last = "Init"

InitServer ==
    /\ server \in [Ids -> UNION {ServerDocs(i) : i \in Ids} \cup {NoRec}]
    /\ \A i \in Ids : server[i] # NoRec => server[i].id = i
    /\ table = [i \in Ids |-> NoRec]
    /\ pulls = {}
    /\ PageAtRest

\* POST /api/sync with the batch of some client
RemoteSync(ops) ==
    /\ server' = ServerSync(server, ops).srv
    /\ UNCHANGED <<table, usedIds, outbox, online, syncInProgress, pushOps, fsWait,
                   pendingFS, pulls, conflicts, showResolver, rejected, swTag, swOps>>
    /\ Step("RemoteSync")

NextServer == \E ops \in Batches : RemoteSync(ops)

SpecServer == InitServer /\ [][NextServer]_vars

\* ------------------------------------------ fetchFromServer taken on its own
\* Any rows the table can hold when fetchTodos answers, any collection the
\* other clients can have left on the server, one pull awaiting its answer.
LocalRows(i) ==
    IF i = IdOrder[1]
    THEN {[id |-> i, text |-> "a", completed |-> c, version |-> v, deleted |-> d,
           synced |-> s] : c \in BOOLEAN, v \in 1..MaxVersion, d \in BOOLEAN,
                           s \in BOOLEAN}
    ELSE {[id |-> i, text |-> "a", completed |-> FALSE, version |-> v,
           deleted |-> FALSE, synced |-> s] : v \in 1..MaxVersion, s \in BOOLEAN}

RemoteDocs(i) ==
    IF i = IdOrder[1] THEN ServerDocs(i)
    ELSE {d \in ServerDocs(i) : ~d.deleted}

InitPull ==
    /\ table \in [Ids -> UNION {LocalRows(i) : i \in Ids} \cup {NoRec}]
    /\ \A i \in Ids : table[i] # NoRec => table[i].id = i
    /\ server \in [Ids -> UNION {RemoteDocs(i) : i \in Ids} \cup {NoRec}]
    /\ \A i \in Ids : server[i] # NoRec => server[i].id = i
    /\ \E f \in BOOLEAN : pulls = {[hook |-> "TodoPage", force |-> f]}
    /\ PageAtRest

NextPull ==
    \/ \E p \in pulls : PullDone(p)
    \/ \E p \in pulls : PullFail(p)

SpecPull == InitPull /\ [][NextPull]_vars

\* ------------------------------------- the conflict dialog taken on its own
\* A non-forced pull of the TodoPage instance that finds a conflict, the
\* user's choices, and the fullSync that follows the resolution.
InitResolve ==
    /\ InitPull
    /\ \A p \in pulls : ~p.force
    /\ detectConflicts(table, server) # <<>>

NextResolve ==
    \/ \E p \in pulls : PullDone(p)
    \/ \E S \in SUBSET Ids : \E picked \in [S -> Choices] : ResolveAll(picked)
    \/ \E h \in Hooks, force \in BOOLEAN : ScheduledFullSync(h, force)
    \/ \E h \in Hooks : PushDone(h)

SpecResolve == InitResolve /\ [][NextResolve]_vars

\* --------------------------------------- one record with all its fields
\* The table and the collection hold the record of the first id with the
\* fields the sync decisions do not read as well: userName and updatedAt
\* (createdAt travels as updatedAt does on the CREATE path).
Times == 0..MaxTime
NoUser == "(absent)"
FullRows ==
    {[id |-> IdOrder[1], text |-> "a", completed |-> c, version |-> v, deleted |-> d,
      synced |-> FALSE, userName |-> "alice", updatedAt |-> u] :
        c \in BOOLEAN, v \in 1..MaxVersion, d \in BOOLEAN, u \in Times}
FullDocs ==
    {[id |-> IdOrder[1], text |-> tx, completed |-> FALSE, version |-> v, deleted |-> d,
      synced |-> FALSE, userName |-> "bob", updatedAt |-> u] :
        tx \in Texts, v \in 1..MaxVersion, d \in BOOLEAN, u \in Times}

\* Date.toISOString() and new Date(text): the text keeps the milliseconds
Iso(t) == <<"iso", t>>
FromIso(s) == s[2]

\* syncToServer: the operation built from an unsynced row, dates as text
RecordOp(todo) == [type |-> OpType(todo), todo |-> [todo EXCEPT !.updatedAt = Iso(@)]]
\* res.json of a stored document
JsonOf(doc) == [doc EXCEPT !.updatedAt = Iso(@)]

\* POST /api/sync for one operation carrying every field, at server time t
ServerRecord(srv, op, t) ==
    LET p == op.todo
        e == srv[p.id]
        stored(d) == Outcome([srv EXCEPT ![p.id] = d], <<JsonOf(d)>>, <<>>)
        refused == Outcome(srv, <<>>, <<p.id>>)
    IN IF op.type = "CREATE"
       THEN IF e # NoRec
            THEN IF e.version >= p.version THEN Outcome(srv, <<JsonOf(e)>>, <<>>)
                 ELSE refused
            ELSE stored([p EXCEPT !.updatedAt = FromIso(@)])
       ELSE IF op.type = "UPDATE"
       THEN IF e # NoRec /\ e.version > p.version THEN refused
            ELSE Outcome([srv EXCEPT ![p.id] = [p EXCEPT !.updatedAt = t]], <<p>>, <<>>)
       ELSE IF e # NoRec
            THEN stored([e EXCEPT !.deleted = TRUE,
                                  !.version = IF p.version > e.version THEN p.version
                                              ELSE e.version + 1,
                                  !.updatedAt = t])
            ELSE stored([p EXCEPT !.deleted = TRUE, !.updatedAt = t])

\* syncToServer's loop over the results, for one result
ApplyRecordResult(tbl, r) ==
    IF r.deleted THEN [tbl EXCEPT ![r.id] = NoRec]
    ELSE [tbl EXCEPT ![r.id] = [r EXCEPT !.updatedAt = FromIso(@), !.synced = TRUE]]

\* syncToServer answered, for the row i: the collection and the table after it
PushOutcome(tbl, srv, i, t) ==
    LET out == ServerRecord(srv, RecordOp(tbl[i]), t) IN
    [srv |-> out.srv, conf |-> out.conf,
     tbl |-> IF out.res = <<>> THEN tbl ELSE ApplyRecordResult(tbl, out.res[1])]

\* fetchTodos: the mapping of one document of the answer
FetchedTodo(d) ==
    [id |-> d.id, text |-> d.text, completed |-> d.completed, version |-> d.version,
     synced |-> d.synced, updatedAt |-> FromIso(JsonOf(d).updatedAt),
     deleted |-> d.deleted, userName |-> NoUser]
FetchedTodos(srv) == [i \in Ids |-> IF srv[i] = NoRec THEN NoRec ELSE FetchedTodo(srv[i])]

\* fetchFromServer's merge branch on the fetched list
MergedTable(tbl, fetched) ==
    [i \in Ids |-> IF fetched[i] = NoRec THEN tbl[i]
                   ELSE IF tbl[i] = NoRec \/ tbl[i].synced
                   THEN [fetched[i] EXCEPT !.synced = TRUE]
                   ELSE tbl[i]]

\* a faulty 'last-write-wins' that lets the local copy win a tie
LastWriteWinsOnTie(c) ==
    IF c.localVersion.updatedAt >= c.serverVersion.updatedAt
    THEN [c.localVersion EXCEPT !.version = c.serverVersion.version + 1, !.synced = FALSE]
    ELSE [c.serverVersion EXCEPT !.synced = TRUE]

\* resolveConflict, case 'last-write-wins' (both copies carry updatedAt)
LastWriteWins(c) ==
    IF c.localVersion.updatedAt > c.serverVersion.updatedAt
    THEN [c.localVersion EXCEPT !.version = c.serverVersion.version + 1, !.synced = FALSE]
    ELSE [c.serverVersion EXCEPT !.synced = TRUE]

InitRecord ==
    /\ \E l \in FullRows : table = [i \in Ids |-> IF i = l.id THEN l ELSE NoRec]
    /\ \E d \in FullDocs \cup {NoRec} :
          server = [i \in Ids |-> IF i = IdOrder[1] THEN d ELSE NoRec]
    /\ pulls = {}
    /\ PageAtRest

\* syncToServer of the TodoPage instance, called and answered at server time t
PushRecord(i, t) ==
    /\ table[i] # NoRec /\ ~table[i].synced
    /\ LET out == PushOutcome(table, server, i, t) IN
       /\ server' = out.srv
       /\ table' = out.tbl
    /\ UNCHANGED <<usedIds, outbox, online, syncInProgress, pushOps, fsWait, pendingFS,
                   pulls, conflicts, showResolver, rejected, swTag, swOps>>
    /\ Step("PushRecord")

\* fetchFromServer(false) of the TodoPage instance, called and answered
PullRecord ==
    /\ LET fetched == FetchedTodos(server)
           detected == IF Unsynced(table) # {} THEN detectConflicts(table, fetched)
                       ELSE <<>>
       IN IF detected # <<>>
          THEN /\ conflicts' = [conflicts EXCEPT !["TodoPage"] = detected]
               /\ showResolver' = TRUE
               /\ UNCHANGED table
          ELSE /\ table' = MergedTable(table, fetched)
               /\ UNCHANGED <<conflicts, showResolver>>
    /\ UNCHANGED <<server, usedIds, outbox, online, syncInProgress, pushOps, fsWait,
                   pendingFS, pulls, rejected, swTag, swOps>>
    /\ Step("PullRecord")

\* handleConflictResolution called for the listed conflict of i with neither
\* 'local' nor 'server' and no resolvedTodo: it falls back to 'last-write-wins'
ResolveLastWrite(i) ==
    LET cs == conflicts["TodoPage"] IN
    /\ \E k \in 1..Len(cs) : cs[k].todoId = i
    /\ table[i] # NoRec
    /\ table' = [table EXCEPT ![i] = LastWriteWins(ConflictOf(cs, i))]
    /\ conflicts' = [conflicts EXCEPT !["TodoPage"] =
                       IF Len(cs) <= 1 THEN <<>>
                       ELSE SelectSeq(cs, LAMBDA c : c.todoId # i)]
    /\ showResolver' = IF Len(cs) <= 1 THEN FALSE ELSE showResolver
    /\ pendingFS' = IF Len(cs) <= 1 THEN pendingFS \cup {<<"TodoPage", FALSE>>}
                    ELSE pendingFS
    /\ UNCHANGED <<server, usedIds, outbox, online, syncInProgress, pushOps, fsWait,
                   pulls, rejected, swTag, swOps>>
    /\ Step("ResolveLastWrite")

NextRecord ==
    \/ \E i \in Ids, t \in Times : PushRecord(i, t)
    \/ PullRecord
    \/ \E i \in Ids : ResolveLastWrite(i)

SpecRecord == InitRecord /\ [][NextRecord]_vars

\* ================================================================ claims
Mutations == {"addTodo", "toggleTodo", "deleteTodo", "editTodo"}
Pushing == {h \in Hooks : pushOps[h] # <<>>}
SameContent(a, b) == a.text = b.text /\ a.completed = b.completed

\* C1: within one page at most one push is in flight at any time, whichever
\* useSync instance received the trigger.
C1_OnePushInFlight == Cardinality(Pushing) <= 1

\* C2: within one client at most one pull is in flight at any time.
C2_OnePullInFlight == Cardinality(pulls) <= 1

\* the request `ops`, answered with the conflicts `conf`, carried the change
\* of entry e and the server accepted it
AcceptedIn(e, ops, conf) ==
    /\ e.op.todo.id \notin Range(conf)
    /\ \E k \in 1..Len(ops) : /\ ops[k].todo.id = e.op.todo.id
                              /\ ops[k].todo.version >= e.op.todo.version

\* C3: an outbox entry is removed only in a step in which the server answers
\* a request that carried the entry's operation by accepting it.
C3_RemovedOnlyWhenAccepted ==
    [][\A e \in Range(outbox) \ Range(outbox') :
          \/ /\ last' = "PushDone"
             /\ \E h \in Hooks :
                   /\ pushOps[h] # <<>> /\ pushOps'[h] = <<>>
                   /\ AcceptedIn(e, pushOps[h], ServerSync(server, pushOps[h]).conf)
          \/ /\ last' = "SwSyncDone"
             /\ e \in Range(swOps)
             /\ e.op.todo.id \notin Range(ServerSync(server, OpsOfEntries(swOps)).conf)
      ]_vars

\* the server document d holds what the local row r holds
Holds(d, r) ==
    /\ d # NoRec
    /\ d.version >= r.version
    /\ d.deleted = r.deleted
    /\ r.deleted \/ SameContent(d, r)

\* C4: no step of the sync machinery (anything but a user mutation or a
\* conflict resolution) removes or overwrites an unsynced local row unless
\* the server then holds that row's change.
C4_UnsyncedRowsKept ==
    [][\A i \in Ids :
          (/\ table[i] # NoRec /\ ~table[i].synced
           /\ table'[i] # table[i]
           /\ last' \notin Mutations \cup {"ResolveAll"})
          => Holds(server'[i], table[i])
      ]_vars

\* C5: when a push carries an UPDATE whose version equals the version the
\* server already stores for that id (another client's edit arrived first)
\* and the contents differ, the server reports a conflict and keeps the
\* stored document.
C5_SecondWriterRejected ==
    [][(last' = "PushDone") =>
          \A h \in Hooks : (pushOps[h] # <<>> /\ pushOps'[h] = <<>>) =>
             \A k \in 1..Len(pushOps[h]) :
                LET t == pushOps[h][k].todo IN
                (/\ pushOps[h][k].type = "UPDATE"
                 /\ server[t.id] # NoRec
                 /\ server[t.id].version = t.version
                 /\ ~SameContent(server[t.id], t))
                => (server'[t.id] = server[t.id] /\ t.id \in rejected')
      ]_vars

\* C6: whenever a local row is unsynced and its text or completed differs
\* from the server's document with the same id, detectConflicts reports a
\* conflict for that id, equal version numbers included.
C6_DivergenceDetected ==
    \A i \in Ids :
       (/\ table[i] # NoRec /\ ~table[i].synced
        /\ server[i] # NoRec /\ ~SameContent(table[i], server[i]))
       => \E k \in 1..Len(detectConflicts(table, server)) :
             detectConflicts(table, server)[k].todoId = i

\* a conflict for id i exists: reported by the server or listed for the dialog
Conflicted(i) ==
    \/ i \in rejected
    \/ \E k \in 1..Len(conflicts["TodoPage"]) : conflicts["TodoPage"][k].todoId = i

\* C7: a local row with a conflict becomes synced only in a step that
\* applies a resolution to it.
C7_NoSyncedBeforeResolution ==
    [][\A i \in Ids :
          (/\ Conflicted(i)
           /\ table[i] # NoRec /\ ~table[i].synced
           /\ table'[i] # NoRec /\ table'[i].synced)
          => (last' = "ResolveAll" /\ ~Conflicted(i)')
      ]_vars

PullsOf(ps, h) == {p \in ps : p.hook = h}

\* C8: a fullSync that has something to push issues no fetch when it starts;
\* while it waits its push is in flight; its fetch is issued in the step
\* that ends its push (response applied or failure handled).
C8_PushBeforePull ==
    [][\A h \in Hooks :
          /\ (fsWait[h] = "none" /\ fsWait'[h] # "none")
                => (pushOps'[h] # <<>> /\ PullsOf(pulls', h) = PullsOf(pulls, h))
          /\ fsWait'[h] # "none" => (syncInProgress'[h] /\ pushOps'[h] # <<>>)
          /\ (fsWait[h] # "none" /\ fsWait'[h] = "none")
                => /\ last' \in {"PushDone", "PushFail"}
                   /\ pushOps'[h] = <<>> /\ ~syncInProgress'[h]
                   /\ online => [hook |-> h, force |-> (fsWait[h] = "force")] \in pulls'
      ]_vars

\* App's fullSync(true) is in its push phase and none of App's pulls is out
C8_Witness ==
    /\ fsWait["App"] = "force"
    /\ pushOps["App"] # <<>>
    /\ PullsOf(pulls, "App") = {}

C10_FailedPullWritesNothing ==
    [][(last' = "PullFail") =>
          /\ table' = table /\ conflicts' = conflicts /\ showResolver' = showResolver
          /\ outbox' = outbox
      ]_vars

\* a pull has just failed while rows exist, one of them unsynced
C10_Witness ==
    /\ last = "PullFail"
    /\ Unsynced(table) # {}


\* C14: for every id the version the server stores never decreases,
\* whatever batches of CREATE, UPDATE and DELETE arrive.
C14_ServerVersionMonotone ==
    [][\A i \in Ids :
          server[i] # NoRec =>
             (server'[i] # NoRec /\ server'[i].version >= server[i].version)
      ]_vars

\* batches have raised a stored version up to the highest one explored
C14_Witness ==
    /\ last = "RemoteSync" /\ steps >= 2
    /\ \E i \in Ids : server[i] # NoRec /\ server[i].version = MaxVersion

UpdatePayloads == {op.todo : op \in {o \in BatchOps : o.type = "UPDATE"}}
DeletePayloads == {op.todo : op \in {o \in BatchOps : o.type = "DELETE"}}

\* C15: an UPDATE is accepted exactly when no document with that id exists
\* or the stored version is less than or equal to the incoming version; a
\* rejected UPDATE is listed under conflicts and leaves the collection as
\* it was.
C15_UpdateAcceptedIffNotNewer ==
    \A t \in UpdatePayloads :
       LET out == ServerUpdate(server, t)
           accepted == out.conf = <<>> /\ out.res # <<>>
       IN /\ accepted <=> (\/ server[t.id] = NoRec
                           \/ ("version" \in t.has /\ server[t.id].version <= t.version))
          /\ ~accepted => (out.srv = server /\ out.conf = <<t.id>>)

\* C16: a DELETE is never rejected and never removes a document: afterwards
\* the collection holds a tombstone for the id, and the version of a
\* document that existed before is strictly greater than it was.
C16_DeleteMakesTombstone ==
    \A t \in DeletePayloads :
       LET out == ServerDelete(server, t) IN
       /\ out.conf = <<>>
       /\ out.srv[t.id] # NoRec /\ out.srv[t.id].deleted
       /\ server[t.id] # NoRec => out.srv[t.id].version > server[t.id].version
       /\ \A i \in Ids \ {t.id} : out.srv[i] = server[i]

\* a batch has left a tombstone whose version was raised
C16_Witness ==
    /\ last = "RemoteSync"
    /\ server["t1"] # NoRec /\ server["t1"].deleted /\ server["t1"].version > 1

\* C17: applying a batch a second time right after the first
\* leaves the collection as the first application left it.
C17_ReplayIdempotent ==
    \A ops \in Batches :
       LET once == ServerSync(server, ops).srv
       IN ServerSync(once, ops).srv = once

\* the step is the answer to the pull p
Answered(p) == last' = "PullDone" /\ p \in pulls /\ pulls' = pulls \ {p}

\* C11: a non-forced pull answered while some local row is unsynced and for
\* which detectConflicts finds at least one conflict writes nothing to the
\* local store; it only records the detected conflicts for resolution.
C11_ConflictingPullWritesNothing ==
    [][\A p \in pulls :
          (Answered(p) /\ ~p.force /\ Unsynced(table) # {}
              /\ detectConflicts(table, server) # <<>>)
          => /\ table' = table
             /\ outbox' = outbox
             /\ conflicts'[p.hook] = detectConflicts(table, server)
             /\ showResolver']_vars

\* a conflict on t1 was recorded while the server held a copy of t2 the
\* merge branch would have put over the local one
C11_Witness ==
    /\ last = "PullDone"
    /\ conflicts["TodoPage"] # <<>> /\ showResolver
    /\ table["t2"] # NoRec /\ table["t2"].synced
    /\ server["t2"] # NoRec /\ table["t2"] # Row(server["t2"], TRUE)

\* C12: in a non-forced pull in which no conflict is detected every unsynced
\* local row is left exactly as it was, and every synced local row with a
\* server counterpart is replaced by the server's copy, marked synced.
C12_MergeKeepsUnsynced ==
    [][\A p \in pulls :
          (Answered(p) /\ ~p.force /\ detectConflicts(table, server) = <<>>)
          => \A i \in Ids :
                /\ (table[i] # NoRec /\ ~table[i].synced) => table'[i] = table[i]
                /\ (table[i] # NoRec /\ table[i].synced /\ server[i] # NoRec)
                      => table'[i] = Row(server[i], TRUE)]_vars

\* an unsynced row differing from the server's copy survived the merge that
\* brought the other row to the server's copy
C12_Witness ==
    /\ last = "PullDone"
    /\ conflicts["TodoPage"] = <<>>
    /\ table["t1"] # NoRec /\ ~table["t1"].synced
    /\ server["t1"] # NoRec /\ Doc(table["t1"]) # server["t1"]
    /\ table["t2"] # NoRec /\ server["t2"] # NoRec
    /\ table["t2"] = Row(server["t2"], TRUE) /\ server["t2"].text = "b"

\* the local row x is unsynced and the detector reports it against srv
InConflict(tbl, srv, x) ==
    tbl[x] # NoRec /\ ~tbl[x].synced /\ DetectOne(tbl[x], srv) # <<>>

\* the local row y is synced and the server holds a newer copy of it
NewerOnServer(tbl, srv, y) ==
    /\ tbl[y] # NoRec /\ tbl[y].synced
    /\ srv[y] # NoRec /\ srv[y].version > tbl[y].version

\* C13 (as stated): a conflict on X blocks the pull for X only; a non-forced
\* pull answered while X is in conflict still applies the server's newer copy
\* of a different, locally synced record Y.
C13_ConflictBlocksOnlyItsRecord ==
    [][\A p \in pulls : \A x \in Ids : \A y \in Ids \ {x} :
          (Answered(p) /\ ~p.force /\ InConflict(table, server, x)
              /\ NewerOnServer(table, server, y))
          => table'[y] = Row(server[y], TRUE)]_vars

\* C13 (amended): a conflict on X blocks the whole non-forced pull; the
\* server's newer copy of a different, locally synced record Y is not applied
\* and Y's row stays as it was.
C13_ConflictBlocksWholePull ==
    [][\A p \in pulls : \A x \in Ids : \A y \in Ids \ {x} :
          (Answered(p) /\ ~p.force /\ InConflict(table, server, x)
              /\ NewerOnServer(table, server, y))
          => (table'[y] = table[y] /\ table'[y] # Row(server[y], TRUE))]_vars

\* the pull recorded the conflict on t1 and the synced t2 is still behind
\* the server's copy
C13_Witness ==
    /\ last = "PullDone"
    /\ Len(conflicts["TodoPage"]) = 1 /\ conflicts["TodoPage"][1].todoId = "t1"
    /\ InConflict(table, server, "t1")
    /\ NewerOnServer(table, server, "t2")

\* what detectConflicts returns for the table and the fetched list, and the
\* part of it about the id i
Detected == detectConflicts(table, server)
DetectedFor(i) == SelectSeq(Detected, LAMBDA c : c.todoId = i)
BothHold(i) == table[i] # NoRec /\ server[i] # NoRec

C19_DeletionClassified ==
    \A i \in Ids :
       (BothHold(i) /\ ~table[i].synced /\ table[i].deleted /\ ~server[i].deleted
           /\ table[i].version # server[i].version)
       => (Len(DetectedFor(i)) = 1 /\ DetectedFor(i)[1].conflictType = "deletion")

\* the pull recorded the detector's answer for a locally deleted row whose text and completed both differ from the
\* server's live copy
C19_Witness ==
    /\ last = "PullDone" /\ conflicts["TodoPage"] = Detected
    /\ BothHold("t1") /\ ~table["t1"].synced
    /\ table["t1"].deleted /\ ~server["t1"].deleted
    /\ table["t1"].version > server["t1"].version
    /\ table["t1"].text # server["t1"].text
    /\ table["t1"].completed # server["t1"].completed
    /\ Len(Detected) = 1 /\ Detected[1].conflictType = "deletion"

Divergent(i) ==
    /\ BothHold(i)
    /\ (table[i].text # server[i].text \/ table[i].completed # server[i].completed)
    /\ table[i].version # server[i].version
    /\ table[i].version # 0 /\ server[i].version # 0

\* C20 (as stated): every pair of local and server copies of one id with
\* differing text or completed and differing non-zero versions is classified
\* 'content'.
C20_DivergentIsContent ==
    \A i \in Ids :
       Divergent(i)
       => (Len(DetectedFor(i)) = 1 /\ DetectedFor(i)[1].conflictType = "content")

\* C20 (amended): such a pair is classified 'content' when the local copy is
\* unsynced and is not a local deletion of a record the server still holds
\* undeleted.
C20_UnsyncedDivergentIsContent ==
    \A i \in Ids :
       (Divergent(i) /\ ~table[i].synced /\ ~(table[i].deleted /\ ~server[i].deleted))
       => (Len(DetectedFor(i)) = 1 /\ DetectedFor(i)[1].conflictType = "content")

\* the pull recorded the detector's answer for an unsynced live row ahead of the server's copy and differing from it in
\* completed only
C20_Witness ==
    /\ last = "PullDone" /\ conflicts["TodoPage"] = Detected
    /\ Divergent("t1") /\ ~table["t1"].synced /\ ~table["t1"].deleted
    /\ table["t1"].text = server["t1"].text
    /\ table["t1"].version > server["t1"].version
    /\ DetectedFor("t1") # <<>> /\ DetectedFor("t1")[1].conflictType = "content"

\* an unsynced row at another version than the server's copy, neither a
\* local deletion of a live record nor different in text or completed
VersionOnly(i) ==
    /\ BothHold(i) /\ ~table[i].synced
    /\ table[i].version # server[i].version
    /\ ~(table[i].deleted /\ ~server[i].deleted)
    /\ table[i].text = server[i].text /\ table[i].completed = server[i].completed

\* C21 (as stated): for every such row detectConflicts reports a 'version'
\* conflict, both when the local version is lower and when it is higher.
C21_VersionMismatchReported ==
    \A i \in Ids :
       VersionOnly(i)
       => (Len(DetectedFor(i)) = 1 /\ DetectedFor(i)[1].conflictType = "version")

\* C21 (amended): it reports a 'version' conflict when the local version is
\* lower than the server's, and nothing when it is higher.
C21_VersionReportedOnlyWhenBehind ==
    \A i \in Ids :
       VersionOnly(i)
       => IF table[i].version < server[i].version
          THEN Len(DetectedFor(i)) = 1 /\ DetectedFor(i)[1].conflictType = "version"
          ELSE DetectedFor(i) = <<>>

\* the pull recorded a 'version' conflict for the row behind the server and
\* nothing for the row ahead of it
C21_Witness ==
    /\ last = "PullDone" /\ conflicts["TodoPage"] = Detected
    /\ VersionOnly("t1") /\ table["t1"].version < server["t1"].version
    /\ VersionOnly("t2") /\ table["t2"].version > server["t2"].version
    /\ Len(Detected) = 1 /\ Detected[1].todoId = "t1"
    /\ Detected[1].conflictType = "version"

\* the row i was deleted locally and not pushed, and the server holds a live
\* copy of it at the same version (another client's update in between)
DeletedAgainstUpdate(i) ==
    /\ BothHold(i) /\ ~table[i].synced /\ table[i].deleted
    /\ ~server[i].deleted /\ server[i].version = table[i].version

\* C27: scenario C.  A pull that sees the server's live copy at the version
\* of the locally deleted, unpushed row records a 'deletion' conflict for it
\* (which, resolved as local-wins, gives deleted = true at the next version,
\* unsynced, and a push that leaves a tombstone).
C27_OfflineDeleteSurfacesAsDeletion ==
    [][\A p \in pulls : \A i \in Ids :
          (Answered(p) /\ ~p.force /\ DeletedAgainstUpdate(i))
          => \E k \in 1..Len(conflicts'[p.hook]) :
                /\ conflicts'[p.hook][k].todoId = i
                /\ conflicts'[p.hook][k].conflictType = "deletion"]_vars

\* the queue q, sent in enqueue order to a server without any record, leaves
\* the server with exactly the records of tbl
Reproduces(q, tbl) ==
    LET srv == ServerSync([i \in Ids |-> NoRec], OpsOfEntries(q)).srv IN
    \A i \in Ids : IF tbl[i] = NoRec THEN srv[i] = NoRec
                   ELSE srv[i] # NoRec /\ srv[i] = Doc(tbl[i])

\* C29: every mutation made offline adds one entry to the outbox, and the
\* outbox replayed in enqueue order against an empty server reproduces the
\* local records (text, completed, deleted, version); stated as the step that
\* keeps it true: if it holds before an offline mutation it holds after it.
C29_ReplayReproducesLocal ==
    [][(last' \in Mutations /\ ~online /\ Reproduces(outbox, table))
          => (Len(outbox') = Len(outbox) + 1 /\ Reproduces(outbox', table'))]_vars

\* C30: every batch read from the outbox for transmission lists the entries
\* in the order they were enqueued, so a CREATE precedes a later UPDATE or
\* DELETE of the same id in the transmitted batch.
C30_BatchInEnqueueOrder ==
    [][last' = "SwSyncStart" => swOps' = outbox]_vars

\* the push answered in this step carried exactly the CREATE of the row i,
\* still at version 1 and unsynced, and the server has no record of i
CreatePushAnswered(h, i) ==
    /\ last' = "PushDone" /\ pushOps[h] # <<>> /\ pushOps'[h] = <<>>
    /\ table[i] # NoRec /\ table[i].version = 1 /\ ~table[i].synced
    /\ pushOps[h] = <<[type |-> "CREATE", todo |-> Payload(table[i])]>>
    /\ server[i] = NoRec

\* C26: scenario A.  A record created offline at version 1 adds exactly one
\* outbox entry, its CREATE; when after the reconnect the push of that record
\* is answered by a server that has no record of the id, the server stores the
\* record, the local row is synced and the outbox is empty.
C26_OfflineCreateSynced ==
    [][/\ (last' = "addTodo" /\ ~online)
          => \E i \in Ids :
                /\ table[i] = NoRec /\ table'[i] # NoRec
                /\ table'[i].version = 1 /\ ~table'[i].synced
                /\ Len(outbox') = Len(outbox) + 1
                /\ SubSeq(outbox', 1, Len(outbox)) = outbox
                /\ outbox'[Len(outbox')].op =
                      [type |-> "CREATE", todo |-> Payload(table'[i])]
       /\ \A h \in Hooks : \A i \in Ids :
             CreatePushAnswered(h, i)
             => /\ server'[i] = Doc(table[i])
                /\ table'[i] = Row(server'[i], TRUE)
                /\ outbox' = <<>>]_vars

\* a record added in this session (the text no stored record has) was pushed
\* and is now on the server, synced locally, with nothing left in the outbox
C26_Witness ==
    /\ last = "PushDone" /\ steps >= 4 /\ online
    /\ table["t1"] # NoRec /\ table["t1"].text = "b" /\ table["t1"].version = 1
    /\ table["t1"].synced /\ server["t1"] = Doc(table["t1"])
    /\ outbox = <<>>

\* the ids the dialog lists, and the ids on which the step applied a
\* resolution (handleConflictResolution takes them off the list)
Listed(cs) == {cs[k].todoId : k \in 1..Len(cs)}
Applied(i) ==
    /\ last' = "ResolveAll"
    /\ i \in Listed(conflicts["TodoPage"])
    /\ i \notin Listed(conflicts'["TodoPage"])
Conflict(i) == ConflictOf(conflicts["TodoPage"], i)

\* what the stored row tells about the choice: 'use server' is the only one
\* that stores a synced row, 'merge both' the only one that changes the text
\* of an unsynced one
KeptLocal(i) ==
    Applied(i) /\ ~table'[i].synced /\ table'[i].text = Conflict(i).localVersion.text
Merged(i) ==
    Applied(i) /\ ~table'[i].synced /\ table'[i].text # Conflict(i).localVersion.text

\* the server lists the row i of tbl under results, not under conflicts,
\* when the unsynced rows of tbl are pushed to srv
PushAccepted(tbl, srv, i) ==
    LET out == ServerSync(srv, Operations(tbl)) IN
    /\ i \notin Range(out.conf)
    /\ \E k \in 1..Len(out.res) : out.res[k].id = i

\* C23: a record resolved as local-wins keeps the local content, gets the
\* server's version + 1 and synced = false, and, the server's copy being the
\* one the conflict was detected against, its next push is accepted.
C23_LocalWinsIsAccepted ==
    [][\A i \in Ids :
          KeptLocal(i)
          => LET c == Conflict(i) IN
             /\ SameContent(table'[i], c.localVersion)
             /\ table'[i].deleted = c.localVersion.deleted
             /\ table'[i].version = c.serverVersion.version + 1
             /\ ~table'[i].synced
             /\ (server[i] = c.serverVersion => PushAccepted(table', server, i))]_vars

\* the push that followed a 'keep your version' was answered without a
\* conflict: the local content, one version past the server's old copy, is
\* now the server's
C23_Witness ==
    /\ last = "PushDone" /\ steps = 4
    /\ rejected = {} /\ conflicts["TodoPage"] = <<>>
    /\ table["t2"] = NoRec /\ server["t2"] = NoRec
    /\ table["t1"] # NoRec /\ table["t1"].synced /\ table["t1"].completed
    /\ server["t1"] = Doc(table["t1"])

\* C24 (as stated): every resolution that keeps the record unsynced ('keep
\* your version', 'merge both') stores synced = false and a version strictly
\* greater than both the conflict's local and its server version.
C24_UnsyncedResolutionPastBoth ==
    [][\A i \in Ids :
          (Applied(i) /\ ~table'[i].synced)
          => LET c == Conflict(i) IN
             /\ table'[i].version > c.localVersion.version
             /\ table'[i].version > c.serverVersion.version]_vars

\* C24 (amended): such a resolution stores a version strictly greater than
\* the conflict's server version; 'merge both' stores one greater than the
\* local version too, 'keep your version' stores the server's version + 1,
\* whatever the local version was.
C24_UnsyncedResolutionPastServer ==
    [][\A i \in Ids :
          (Applied(i) /\ ~table'[i].synced)
          => LET c == Conflict(i) IN
             /\ table'[i].version > c.serverVersion.version
             /\ Merged(i) => table'[i].version > c.localVersion.version
             /\ KeptLocal(i) => table'[i].version = c.serverVersion.version + 1]_vars

\* a 'keep your version' on a row that was ahead of the server's copy: the
\* stored version is the local one again, one past the server's
C24_Witness ==
    /\ last = "ResolveAll" /\ conflicts["TodoPage"] = <<>>
    /\ BothHold("t1") /\ ~table["t1"].synced
    /\ table["t1"].version = server["t1"].version + 1
    /\ table["t1"].text = "a" /\ server["t1"].text = "b"
    /\ <<"TodoPage", FALSE>> \in pendingFS

\* C25: 'merge both' stores the local text, the separator and the server
\* text, at version max(local, server) + 1, unsynced.
C25_MergeConcatenates ==
    [][\A i \in Ids :
          Merged(i)
          => LET c == Conflict(i) IN
             /\ table'[i].text = c.localVersion.text \o " | " \o c.serverVersion.text
             /\ table'[i].version =
                   (IF c.localVersion.version >= c.serverVersion.version
                    THEN c.localVersion.version ELSE c.serverVersion.version) + 1
             /\ ~table'[i].synced]_vars

\* a merged row: both texts around the separator, unsynced
C25_Witness ==
    /\ last = "ResolveAll"
    /\ table["t1"] # NoRec /\ table["t1"].text = "a | b" /\ ~table["t1"].synced
    /\ server["t1"] # NoRec /\ server["t1"].text = "b"
    /\ table["t1"].version = server["t1"].version + 1

\* C22: under last-write-wins resolveConflict returns the local copy, at the
\* server's version + 1 and unsynced, exactly when the local updatedAt is
\* strictly later than the server's; otherwise, equal timestamps included, it
\* returns the server's copy, synced.
C22_LastWriteWins ==
    [][\A i \in Ids :
          (last' = "ResolveLastWrite" /\ i \in Listed(conflicts["TodoPage"])
              /\ i \notin Listed(conflicts'["TodoPage"]))
          => LET c == Conflict(i) IN
             IF c.localVersion.updatedAt > c.serverVersion.updatedAt
             THEN table'[i] = [c.localVersion EXCEPT
                                 !.version = c.serverVersion.version + 1,
                                 !.synced = FALSE]
             ELSE table'[i] = [c.serverVersion EXCEPT !.synced = TRUE]]_vars

\* the local copy was not the later one: the stored row is the server's
\* copy, synced
C22_Witness ==
    /\ last = "ResolveLastWrite"
    /\ BothHold("t1") /\ table["t1"].synced
    /\ Doc(table["t1"]) = Doc(server["t1"])
    /\ table["t1"].updatedAt = 1 /\ table["t1"].text = "b"

\* C28: a local record pushed and then pulled, with nothing in between and
\* the push accepted, ends up in the local store with every field equal to
\* its value before the push, except synced, which is true.
C28_RoundTripKeepsFields ==
    \A i \in Ids : \A t \in Times :
       (table[i] # NoRec /\ ~table[i].synced)
       => LET pushed == PushOutcome(table, server, i, t)
              pulled == MergedTable(pushed.tbl, FetchedTodos(pushed.srv))
          IN pushed.conf = <<>> => pulled[i] = [table[i] EXCEPT !.synced = TRUE]

\* C40: once the server stores a record as a tombstone, no later CREATE,
\* UPDATE or DELETE of any client makes the stored record of that id
\* non-deleted again.
C40_TombstoneStays ==
    [][\A i \in Ids :
          (server[i] # NoRec /\ server[i].deleted)
          => (server'[i] # NoRec /\ server'[i].deleted)]_vars

\* the push of h answered in this step had read an earlier state of the row
\* i than the one the table holds now
ReadEarlier(h, i) ==
    /\ last' = "PushDone" /\ pushOps[h] # <<>> /\ pushOps'[h] = <<>>
    /\ table[i] # NoRec /\ ~table[i].synced
    /\ \E k \in 1..Len(pushOps[h]) :
          /\ pushOps[h][k].todo.id = i
          /\ pushOps[h][k].todo.version < table[i].version

\* C39: a record the user changed after a push had read its earlier state
\* and before the push applied the server's answer still carries the newer
\* change, unsynced, when the push completes.
C39_NewerChangeSurvivesPush ==
    [][\A h \in Hooks : \A i \in Ids :
          ReadEarlier(h, i) => table'[i] = table[i]]_vars

\* C37: when every POST attempt of performSync fails, the outbox holds the
\* entries it held before and performSync rejects, so that the sync event is
\* retried; the worker clears the outbox only on the path where a POST was
\* answered with a success status.
C37_FailedWorkerSyncKeepsQueue ==
    [][/\ last' = "SwSyncFail" => (outbox' = outbox /\ swTag' /\ swOps' = <<>>)
       /\ last' = "SwSyncStart" => outbox' = outbox
       /\ (last' \in {"SwSyncStart", "SwSyncDone", "SwSyncFail"} /\ outbox' # outbox)
             => (last' = "SwSyncDone" /\ outbox' = <<>>)]_vars

\* the worker's batch failed: the entries are still queued and the tag is
\* registered again
C37_Witness ==
    /\ last = "SwSyncFail" /\ swTag /\ swOps = <<>>
    /\ Len(outbox) = MaxQueue

\* C38: every push that set the in-flight flag clears it when it ends,
\* answered or failed, and the flag is set only while a push is awaiting its
\* answer; a failed push therefore leaves the instance free to push again.
C38_FlagClearedWhenPushEnds ==
    \A h \in Hooks :
       /\ syncInProgress[h] <=> pushOps[h] # <<>>
       /\ (last \in {"PushDone", "PushFail"} /\ pushOps[h] = <<>>) => ~syncInProgress[h]

\* a push failed, rows are still unsynced and no instance is left blocked
C38_Witness ==
    /\ last = "PushFail" /\ online
    /\ Unsynced(table) # {}
    /\ \A h \in Hooks : ~syncInProgress[h] /\ pushOps[h] = <<>>

\* the local row of id i is a tombstone the server has not confirmed yet
LocalTombstone(i) == table[i] # NoRec /\ table[i].deleted /\ ~table[i].synced

\* C32: a local delete keeps the record in the local store with deleted=true,
\* version increased by one and synced=false, and the record stays in the
\* local store in that state until the server stores the tombstone for that id.
C32_TombstoneKeptUntilConfirmed ==
    [][/\ last' = "deleteTodo" =>
             \E i \in Ids :
                /\ table[i] # NoRec /\ ~table[i].deleted
                /\ table' = [table EXCEPT ![i] = [table[i] EXCEPT !.deleted = TRUE,
                                                                  !.version = table[i].version + 1,
                                                                  !.synced = FALSE]]
       /\ \A i \in Ids :
             (LocalTombstone(i) /\ table'[i] # table[i]
                /\ last' \notin Mutations \cup {"ResolveAll"})
             => (server'[i] # NoRec /\ server'[i].deleted)
      ]_vars

\* ------------------------------ a push answered without per-item results
\* a push that falls back to optimistic marking when no results came back:
\* every transmitted row synced, every transmitted tombstone removed
OptimisticRows(tbl, ops) ==
    [i \in Ids |->
       IF \E k \in 1..Len(ops) : ops[k].todo.id = i /\ tbl[i] # NoRec
       THEN IF tbl[i].deleted THEN NoRec ELSE [tbl[i] EXCEPT !.synced = TRUE]
       ELSE tbl[i]]

PushDoneOptimistic(h) ==
    /\ pushOps[h] # <<>>
    /\ server' = ServerSync(server, pushOps[h]).srv
    /\ table' = OptimisticRows(table, pushOps[h])
    /\ rejected' = rejected \ {pushOps[h][i].todo.id : i \in 1..Len(pushOps[h])}
    /\ outbox' = <<>>
    /\ SetHookState(FetchAllFrom(PushEnd(HookState, h, online), 1, h, table', online))
    /\ UNCHANGED <<usedIds, online, pendingFS, conflicts, showResolver, swTag, swOps>>
    /\ Step("PushDoneNoDetail")

\* syncTodos resolved with a body that has no `results` list (a server
\* that applied the batch but reports only counts): serverResults is [],
\* the loop over it does nothing, the queue is cleared, 'synced' is
\* broadcast with no ids, finally block
PushDoneNoDetail(h) ==
    /\ pushOps[h] # <<>>
    /\ server' = ServerSync(server, pushOps[h]).srv
    /\ table' = table
    /\ rejected' = rejected \ {pushOps[h][i].todo.id : i \in 1..Len(pushOps[h])}
    /\ outbox' = <<>>
    /\ SetHookState(FetchAllFrom(PushEnd(HookState, h, online), 1, h, table', online))
    /\ UNCHANGED <<usedIds, online, pendingFS, conflicts, showResolver, swTag, swOps>>
    /\ Step("PushDoneNoDetail")

\* unsynced and synced rows against any server documents, the page at rest
\* and no request in flight
InitPush ==
    /\ table \in [Ids -> UNION {LocalRows(i) : i \in Ids} \cup {NoRec}]
    /\ \A i \in Ids : table[i] # NoRec => table[i].id = i
    /\ server \in [Ids -> UNION {RemoteDocs(i) : i \in Ids} \cup {NoRec}]
    /\ \A i \in Ids : server[i] # NoRec => server[i].id = i
    /\ Unsynced(table) # {}
    /\ pulls = {}
    /\ PageAtRest

NextNoDetail ==
    \/ \E h \in Hooks : AutoSync(h)
    \/ \E h \in Hooks : PushDoneNoDetail(h)

SpecNoDetail == InitPush /\ [][NextNoDetail]_vars

\* ------------------------- a pull between a resolution and its push
\* The dialog of SpecResolve with the window regaining focus: every mounted
\* instance then pulls without force, before the fullSync that the
\* resolution scheduled has pushed anything.  The server's documents never
\* change here.
NextRepull ==
    \/ \E p \in pulls : PullDone(p)
    \/ \E S \in SUBSET Ids : \E picked \in [S -> Choices] : ResolveAll(picked)
    \/ Focus

SpecRepull == InitResolve /\ [][NextRepull]_vars

\* the row of id i is ahead of the server's copy, unsynced and not listed as
\* a conflict: what 'keep your version' and 'merge both' leave behind
ResolvedUnpushed(i) ==
    /\ last = "ResolveAll"
    /\ table[i] # NoRec /\ ~table[i].synced
    /\ server[i] # NoRec /\ table[i].version > server[i].version
    /\ i \notin Listed(conflicts["TodoPage"])

\* C36: a record resolved as local-wins or merge and not pushed yet is not
\* reported as a conflict again by a non-forced pull as long as the server's
\* copy is the one the conflict was resolved against.
C36_ResolvedStaysResolved ==
    [][\A i \in Ids :
          (ResolvedUnpushed(i) /\ last' = "PullDone" /\ server' = server)
          => i \notin Listed(conflicts'["TodoPage"])]_vars

\* the push of instance h is answered without per-item results in this step
NoDetailAnswer(h) ==
    last' = "PushDoneNoDetail" /\ pushOps[h] # <<>> /\ pushOps'[h] = <<>>

AfterFailedEnqueue(name) ==
    /\ UNCHANGED <<server, outbox, online, syncInProgress, pushOps, fsWait, pendingFS,
                   pulls, conflicts, showResolver, rejected, swTag, swOps>>
    /\ Step(name)

addTodoUnqueued(id, text) ==
    LET todoData == [id |-> id, text |-> text, completed |-> FALSE, version |-> 1,
                     deleted |-> FALSE, synced |-> FALSE]
    IN /\ id \notin usedIds
       /\ usedIds' = usedIds \cup {id}
       /\ table' = [table EXCEPT ![id] = todoData]
       /\ AfterFailedEnqueue("addTodoUnqueued")

toggleTodoUnqueued(id) ==
    /\ table[id] # NoRec /\ ~table[id].deleted
    /\ table' = [table EXCEPT ![id] = [@ EXCEPT !.completed = ~@,
                                                !.version = @ + 1,
                                                !.synced = FALSE]]
    /\ UNCHANGED usedIds
    /\ AfterFailedEnqueue("toggleTodoUnqueued")

deleteTodoUnqueued(id) ==
    /\ table[id] # NoRec /\ ~table[id].deleted
    /\ table' = [table EXCEPT ![id] = [@ EXCEPT !.deleted = TRUE,
                                                !.synced = FALSE,
                                                !.version = @ + 1]]
    /\ UNCHANGED usedIds
    /\ AfterFailedEnqueue("deleteTodoUnqueued")

editTodoUnqueued(id, newText) ==
    /\ table[id] # NoRec /\ ~table[id].deleted
    /\ table' = [table EXCEPT ![id] = [@ EXCEPT !.text = newText,
                                                !.version = @ + 1,
                                                !.synced = FALSE]]
    /\ UNCHANGED usedIds
    /\ AfterFailedEnqueue("editTodoUnqueued")

NextEnqueue ==
    \/ \E id \in NewIds, text \in Texts : addTodo(id, text)
    \/ \E id \in Ids : toggleTodo(id)
    \/ \E id \in Ids : deleteTodo(id)
    \/ \E id \in Ids, text \in Texts : editTodo(id, text)
    \/ \E id \in NewIds, text \in Texts : addTodoUnqueued(id, text)
    \/ \E id \in Ids : toggleTodoUnqueued(id)
    \/ \E id \in Ids : deleteTodoUnqueued(id)
    \/ \E id \in Ids, text \in Texts : editTodoUnqueued(id, text)
    \/ \E h \in Hooks : PushDone(h)
    \/ \E p \in pulls : PullDone(p)

SpecEnqueue == Init /\ [][NextEnqueue]_vars

Unqueued == {"addTodoUnqueued", "toggleTodoUnqueued", "deleteTodoUnqueued",
             "editTodoUnqueued"}

\* C31: when the append to the outbox fails during add, toggle, edit or
\* delete, the mutation is not left applied in the local store: the store
\* holds what it held before the mutation.
C31_FailedEnqueueNotApplied ==
    [][last' \in Unqueued => table' = table]_vars

\* ------------------------------------- the page left alone while online
\* No mutation, no loss of the connection, no failing request and no other
\* client: the 30 s interval of every instance keeps firing and every
\* request is answered.
NextLive ==
    \/ \E h \in Hooks : AutoSync(h)
    \/ \E h \in Hooks : PushDone(h)
    \/ \E p \in pulls : PullDone(p)

\* the versions leave room for the one increment a DELETE makes on the
\* server (a document at the highest version faces no local tombstone); the
\* second record, when stored, is unsynced at version 1 with the server
\* holding nothing for it or a version-1 document
InitLive ==
    /\ InitPush
    /\ \A i \in Ids :
          /\ table[i] # NoRec => table[i].version < MaxVersion
          /\ (server[i] # NoRec /\ server[i].version = MaxVersion)
                => (table[i] # NoRec /\ ~table[i].deleted)
    /\ table[IdOrder[2]] # NoRec => (table[IdOrder[2]].version = 1 /\ ~table[IdOrder[2]].synced)
    /\ server[IdOrder[2]] # NoRec => (table[IdOrder[2]] # NoRec /\ server[IdOrder[2]].version = 1)

SpecLive ==
    /\ InitLive
    /\ [][NextLive]_vars
    /\ WF_vars(\E h \in Hooks : AutoSync(h))
    /\ WF_vars(\E h \in Hooks : PushDone(h))
    /\ WF_vars(\E p \in pulls : PullDone(p))

AllSynced == Unsynced(table) = {}
NoConflictPending ==
    /\ \A h \in Hooks : conflicts[h] = <<>>
    /\ ~showResolver
    /\ detectConflicts(table, server) = <<>>

\* C34: online, with a reachable server, no further mutation and no conflict
\* pending, every unsynced local record eventually is synced or, once its
\* tombstone is confirmed, removed.
C34_EventuallySynced == NoConflictPending ~> AllSynced

\* the push of a local tombstone and of a new record was answered: the
\* tombstone is gone from the store, the record is synced
C34_Witness ==
    /\ last = "PushDone" /\ AllSynced
    /\ table[IdOrder[1]] = NoRec /\ server[IdOrder[1]] # NoRec /\ server[IdOrder[1]].deleted
    /\ table[IdOrder[2]] # NoRec /\ table[IdOrder[2]].synced
    /\ \A h \in Hooks : ~syncInProgress[h]

\* ------------------------------------------- one call of retryWithBackoff
\* The wrapped call's outcomes are the environment's choice.  The page is
\* left as it is: only the call's own state moves.
RetryStep(name) ==
    /\ last' = name
    /\ UNCHANGED <<server, table, usedIds, outbox, online, syncInProgress, pushOps,
                   fsWait, pendingFS, pulls, conflicts, showResolver, rejected,
                   swTag, swOps, steps>>

\* fetchTodos / syncTodos calls retryWithBackoff: attempt = 0
RetryStart(fn) ==
    /\ retry.status = "idle"
    /\ retry' = [RetryIdle EXCEPT !.fn = fn, !.status = "calling"]
    /\ RetryStep("RetryStart")

\* `return await fn()` with fn resolving
RetryReturn ==
    /\ retry.status = "calling"
    /\ retry' = [retry EXCEPT !.status = "returned",
                              !.calls = @ + 1,
                              !.result = <<"value", retry.attempt>>]
    /\ RetryStep("RetryReturn")

\* fn rejected: lastError is kept; on the last attempt it is thrown,
\* otherwise the call sleeps for the jittered delay
RetryFail(jitter) ==
    /\ retry.status = "calling"
    /\ jitter \in Jitters(BackoffDelay(retry.fn, retry.attempt))
    /\ retry' = IF LastAttempt(retry.attempt)
                THEN [retry EXCEPT !.status = "thrown",
                                   !.calls = @ + 1,
                                   !.result = <<"error", retry.attempt>>]
                ELSE [retry EXCEPT !.status = "sleeping",
                                   !.calls = @ + 1,
                                   !.result = <<"error", retry.attempt>>,
                                   !.slept = Append(@, jitter)]
    /\ RetryStep("RetryFail")

\* the sleep is over: attempt++
RetryWake ==
    /\ retry.status = "sleeping"
    /\ retry' = [retry EXCEPT !.status = "calling", !.attempt = @ + 1]
    /\ RetryStep("RetryWake")

NextRetry ==
    \/ \E fn \in Transport : RetryStart(fn)
    \/ RetryReturn
    \/ \E jitter \in UNION {Jitters(BackoffDelay(fn, a)) : fn \in Transport, a \in 0..maxRetries} :
          RetryFail(jitter)
    \/ RetryWake

SpecRetry == Init /\ [][NextRetry]_vars

\* the call returned its current attempt's value, or threw its last error
RetryEndsRight ==
    /\ retry.status = "returned"
          => (retry.result = <<"value", retry.attempt>> /\ retry.calls = retry.attempt + 1)
    /\ retry.status = "thrown" => retry.result = <<"error", retry.calls - 1>>

\* C35 (as stated): with maxRetries 3 the wrapped call is invoked at most 3
\* times; the first success is returned without further attempts and the
\* last failed attempt's error is thrown.
C35_AtMostThreeCalls ==
    /\ retry.calls <= 3
    /\ RetryEndsRight

\* C35 (amended): with maxRetries 3 the wrapped call is invoked at most 4
\* times, one first attempt and up to 3 retries; the first success is
\* returned without further attempts, and the error of the 4th failed
\* attempt is thrown.
C35_AtMostFourCalls ==
    /\ retry.calls <= maxRetries + 1
    /\ RetryEndsRight
    /\ retry.status = "thrown" => retry.calls = maxRetries + 1
    /\ retry.status \in {"calling", "sleeping"} => Len(retry.slept) <= maxRetries

\* syncTodos failed four times: three sleeps of about 2 s, 4 s and 8 s, then
\* the fourth error is thrown
C35_Witness ==
    /\ last = "RetryFail"
    /\ retry.fn = "syncTodos" /\ retry.status = "thrown"
    /\ retry.calls = 4 /\ retry.result = <<"error", 3>>
    /\ retry.slept = <<2000, 4000, 8000>>

====
